---------------------------- MODULE Spec2Model ----------------------------
(***************************************************************************)
(* Model of src/tesseract/command.rs: discovery of the tesseract           *)
(* executable, construction of the recognition command, and the            *)
(* spawn/collect/classify protocol of run_tesseract_command.               *)
(*                                                                         *)
(* Paths are sequences of components (<<"srv", "lib", "tesseract">> is     *)
(* /srv/lib/tesseract, <<>> is the root).  Text is a sequence of           *)
(* one-character strings; BadByte stands for a byte that no UTF-8 text     *)
(* contains.  Option values are None / Some(v).                            *)
(***************************************************************************)
EXTENDS Integers, Sequences, FiniteSets

VARIABLES
    target_os,         \* cfg(target_os): "linux", "macos" or "windows"
    debug_assertions,  \* cfg!(debug_assertions)
    fs,                \* file system: candidate path -> "none" | "file" | "dir"
    env,               \* PATH, current_dir(), current_exe(), home_dir()
    image,             \* what Image::get_image_path() yields for the call
    args,              \* the Args bundle of the call
    child,             \* how the operating system and the child process behave
    command,           \* the Command handed to run_tesseract_command
    op,                \* the operation that was called ("none" before any)
    found,             \* what find_tesseract_path returned in that call
    result,            \* the outcome of the call
    spawns,            \* number of processes spawned by the call
    printed            \* what the call wrote to the diagnostic stream

vars == <<target_os, debug_assertions, fs, env, image, args, child, command,
          op, found, result, spawns, printed>>

-----------------------------------------------------------------------------
(* Option, Result and panics *)

None == [some |-> FALSE]
Some(v) == [some |-> TRUE, v |-> v]

Ok(v) == [tag |-> "Ok", val |-> v]
Err(e) == [tag |-> "Err", err |-> e]
Panic(why) == [tag |-> "panic", why |-> why]
NoResult == [tag |-> "none"]

TesseractNotFoundError == [kind |-> "TesseractNotFoundError"]
CommandExitStatusError(status, stderr) ==
    [kind |-> "CommandExitStatusError", status |-> status, stderr |-> stderr]

-----------------------------------------------------------------------------
(* Build configuration and environment *)

Platforms == {"linux", "macos", "windows"}

EXECUTABLE_NAME(os) == IF os = "windows" THEN "tesseract.exe" ELSE "tesseract"

\* Directory names of the modelled machine; the second one is not valid
\* UTF-8 (a byte 0xFF in a file name is legal on POSIX).
NonUtf8Names == {"d\\xFF"}
DirNames == {"srv"} \cup NonUtf8Names
Dirs == {<<d>> : d \in DirNames}

Join(path, component) == Append(path, component)

Parent(path) ==
    IF Len(path) = 0 THEN None ELSE Some(SubSeq(path, 1, Len(path) - 1))

\* OsStr::to_str of a path: None unless every component is valid UTF-8.
PathToStr(path) ==
    IF \A i \in 1..Len(path) : path[i] \notin NonUtf8Names
    THEN Some(path) ELSE None

\* The auxiliary directory compiled in for the platform, relative to the
\* directory of the running binary.
AuxFolder(os) ==
    CASE os = "macos" -> Some("../Resources")
      [] os = "linux" -> Some("lib")
      [] OTHER -> None

\* The paths whose presence find_tesseract_path can observe.
Candidates(os) ==
    LET name == EXECUTABLE_NAME(os)
        rel == {".local/bin"} \cup
               (IF AuxFolder(os).some THEN {AuxFolder(os).v} ELSE {})
    IN  {Join(d, name) : d \in Dirs}
          \cup {Join(Join(d, r), name) : d \in Dirs, r \in rel}

Kinds == {"none", "file", "dir"}

KindOf(files, path) == IF path \in DOMAIN files THEN files[path] ELSE "none"

\* Path::exists and Path::is_file
Exists(files, path) == KindOf(files, path) # "none"
IsFile(files, path) == KindOf(files, path) = "file"

-----------------------------------------------------------------------------
(* find_tesseract_path *)

\* which::which(EXECUTABLE_NAME): the first directory of PATH that holds an
\* executable regular file of that name.
RECURSIVE Which(_, _, _)
Which(files, pathDirs, name) ==
    IF pathDirs = <<>> THEN Err("CannotFindBinaryPath")
    ELSE IF IsFile(files, Join(Head(pathDirs), name))
         THEN Ok(Join(Head(pathDirs), name))
         ELSE Which(files, Tail(pathDirs), name)

Returned(path, step) == [path |-> Some(path), step |-> step]

InCwd(os, files, e) ==
    IF e.cwd.tag = "Ok"
    THEN LET tesseract_in_cwd == Join(e.cwd.val, EXECUTABLE_NAME(os))
         IN  IF IsFile(files, tesseract_in_cwd) /\ Exists(files, tesseract_in_cwd)
             THEN Some(tesseract_in_cwd) ELSE None
    ELSE None

\* Some(exe_folder) when current_exe() and parent() both succeed.
ExeFolder(e) == IF e.exe.tag = "Ok" THEN Parent(e.exe.val) ELSE None

InExeFolder(os, files, e) ==
    IF ExeFolder(e).some
    THEN LET tesseract_in_exe_folder == Join(ExeFolder(e).v, EXECUTABLE_NAME(os))
         IN  IF Exists(files, tesseract_in_exe_folder)
             THEN Some(tesseract_in_exe_folder) ELSE None
    ELSE None

InAuxFolder(os, files, e) ==
    IF ExeFolder(e).some /\ AuxFolder(os).some
    THEN LET tesseract_in_aux ==
                 Join(Join(ExeFolder(e).v, AuxFolder(os).v), EXECUTABLE_NAME(os))
         IN  IF Exists(files, tesseract_in_aux)
             THEN Some(tesseract_in_aux) ELSE None
    ELSE None

InHome(os, files, e) ==
    IF e.home.some
    THEN LET tesseract_in_home ==
                 Join(Join(e.home.v, ".local/bin"), EXECUTABLE_NAME(os))
         IN  IF Exists(files, tesseract_in_home)
             THEN Some(tesseract_in_home) ELSE None
    ELSE None

\* The value returned, with the number of the step that returned it
\* (0 when the function falls through to None).
find_tesseract_path(os, files, e) ==
    LET inPath == Which(files, e.PATH, EXECUTABLE_NAME(os))
    IN  IF inPath.tag = "Ok" THEN Returned(inPath.val, 1)
        ELSE IF InCwd(os, files, e).some
             THEN Returned(InCwd(os, files, e).v, 2)
        ELSE IF InExeFolder(os, files, e).some
             THEN Returned(InExeFolder(os, files, e).v, 3)
        ELSE IF InAuxFolder(os, files, e).some
             THEN Returned(InAuxFolder(os, files, e).v, 4)
        ELSE IF InHome(os, files, e).some
             THEN Returned(InHome(os, files, e).v, 5)
        ELSE [path |-> None, step |-> 0]

-----------------------------------------------------------------------------
(* Text *)

\* A byte that occurs in no UTF-8 text.
BadByte == "<FF>"

\* String::from_utf8: the bytes unchanged, or an error.
FromUtf8(bytes) ==
    IF \E i \in 1..Len(bytes) : bytes[i] = BadByte
    THEN Err("FromUtf8Error") ELSE Ok(bytes)

\* OsStr::to_str of one argument.
ArgToStr(arg) == IF arg \in NonUtf8Names THEN None ELSE Some(arg)

Digit(d) ==
    CASE d = 0 -> "0" [] d = 1 -> "1" [] d = 2 -> "2" [] d = 3 -> "3"
      [] d = 4 -> "4" [] d = 5 -> "5" [] d = 6 -> "6" [] d = 7 -> "7"
      [] d = 8 -> "8" [] d = 9 -> "9"

RECURSIVE Decimal(_)
Decimal(n) == IF n < 10 THEN Digit(n) ELSE Decimal(n \div 10) \o Digit(n % 10)

\* i32::to_string
to_string(n) == IF n < 0 THEN "-" \o Decimal(0 - n) ELSE Decimal(n)

\* str::lines: the pieces between line feeds; a final line feed ends the last
\* line and starts no new one.
RECURSIVE LinesFrom(_, _)
LinesFrom(text, current) ==
    IF text = <<>>
    THEN IF current = <<>> THEN <<>> ELSE <<current>>
    ELSE IF Head(text) = "\n"
         THEN <<current>> \o LinesFrom(Tail(text), <<>>)
         ELSE LinesFrom(Tail(text), Append(current, Head(text)))

Lines(text) == LinesFrom(text, <<>>)

\* Mutant: the header line is not skipped.
Skip_Nothing(seq, n) == seq

\* Iterator::skip(n)
Skip(seq, n) == IF Len(seq) <= n THEN <<>> ELSE SubSeq(seq, n + 1, Len(seq))

-----------------------------------------------------------------------------
(* run_tesseract_command *)

\* ExitStatus::to_string
StatusToString(os, status) ==
    IF status.code.some
    THEN (IF os = "windows" THEN "exit code: " ELSE "exit status: ")
            \o to_string(status.code.v)
    ELSE "signal: " \o to_string(status.signal)

\* show_command: the line printed, or the panic of unwrap() on a program
\* path that is not valid UTF-8.
show_command(cmd) ==
    LET params == [i \in 1..Len(cmd.args) |->
                      IF ArgToStr(cmd.args[i]).some
                      THEN ArgToStr(cmd.args[i]).v ELSE ""]
    IN  IF PathToStr(cmd.program).some
        THEN Ok([program |-> PathToStr(cmd.program).v, params |-> params])
        ELSE Panic("unwrap on None")

\* The diagnostic runs in debug builds only.
Diagnostic(dbg, cmd) == IF dbg THEN Some(show_command(cmd)) ELSE None

\* Mutant: every exit code counts as success.
Classify_AnyCode(os, out, err, status) ==
    IF status.code.some
    THEN Ok(out)
    ELSE Err(CommandExitStatusError(StatusToString(os, status), err))

\* Exit-code classification of a collected child.
Classify(os, out, err, status) ==
    IF status.code = Some(0)
    THEN Ok(out)
    ELSE Err(CommandExitStatusError(StatusToString(os, status), err))

Outcome(res, nSpawns, diag) ==
    [result |-> res, spawns |-> nSpawns, printed |-> diag]

\* Mutant: a failed spawn is tried a second time.
SpawnAndCollect_Retry(os, ch, diag) ==
    IF ch.spawn = "fail" \/ ch.wait = "fail"
    THEN Outcome(Err(TesseractNotFoundError), IF ch.spawn = "fail" THEN 2 ELSE 1, diag)
    ELSE IF FromUtf8(ch.stdout).tag = "Err" \/ FromUtf8(ch.stderr).tag = "Err"
    THEN Outcome(Panic("unwrap on Err"), 1, diag)
    ELSE Outcome(Classify(os, FromUtf8(ch.stdout).val, FromUtf8(ch.stderr).val,
                          ch.status), 1, diag)

\* spawn, wait_with_output, decode, classify.
SpawnAndCollect(os, ch, diag) ==
    IF ch.spawn = "fail"
    THEN Outcome(Err(TesseractNotFoundError), 1, diag)
    ELSE IF ch.wait = "fail"
    THEN Outcome(Err(TesseractNotFoundError), 1, diag)
    ELSE IF FromUtf8(ch.stdout).tag = "Err" \/ FromUtf8(ch.stderr).tag = "Err"
    THEN Outcome(Panic("unwrap on Err"), 1, diag)
    ELSE Outcome(Classify(os, FromUtf8(ch.stdout).val, FromUtf8(ch.stderr).val,
                          ch.status), 1, diag)

run_tesseract_command(dbg, os, cmd, ch) ==
    LET diag == Diagnostic(dbg, cmd)
    IN  IF diag.some /\ diag.v.tag = "panic"
        THEN Outcome(diag.v, 0, None)
        ELSE SpawnAndCollect(os, ch, IF diag.some THEN Some(diag.v.val) ELSE None)

-----------------------------------------------------------------------------
(* Command construction *)

\* get_tesseract_command: Command::new(find_tesseract_path().unwrap())
get_tesseract_command(os, files, e) ==
    LET tesseract == find_tesseract_path(os, files, e).path
    IN  IF tesseract.some
        THEN Ok([program |-> tesseract.v, args |-> <<>>])
        ELSE Panic("unwrap on None")

Arg(cmd, a) == [cmd EXCEPT !.args = Append(@, a)]

\* Mutant: the value is put before its flag.
OptionArgs_ValueFirst(flag, opt) ==
    IF opt.some THEN <<to_string(opt.v), flag>> ELSE <<>>

OptionArgs(flag, opt) == IF opt.some THEN <<flag, to_string(opt.v)>> ELSE <<>>

RECURSIVE ConfigArgs(_)
ConfigArgs(parameters) ==
    IF parameters = <<>> THEN <<>>
    ELSE <<"-c", Head(parameters)>> \o ConfigArgs(Tail(parameters))

\* a.config is what args.get_config_variable_args() returns.
create_tesseract_command(os, files, e, img, a) ==
    LET base == get_tesseract_command(os, files, e)
    IN  IF base.tag = "panic" THEN base
        ELSE IF img.tag = "Err" THEN Err(img.err)
        ELSE Ok([program |-> base.val.program,
                 args |-> <<img.val, "stdout", "-l", a.lang>>
                            \o OptionArgs("--dpi", a.dpi)
                            \o OptionArgs("--psm", a.psm)
                            \o OptionArgs("--oem", a.oem)
                            \o ConfigArgs(a.config)])

-----------------------------------------------------------------------------
(* Facade operations.  Each yields the outcome of run_tesseract_command     *)
(* extended with the command that was built (None when none was).          *)

Call(res, nSpawns, diag, cmd) ==
    [result |-> res, spawns |-> nSpawns, printed |-> diag, command |-> cmd]

RunBuilt(dbg, os, cmd, ch) ==
    LET o == run_tesseract_command(dbg, os, cmd, ch)
    IN  Call(o.result, o.spawns, o.printed, Some(cmd))

get_tesseract_version(dbg, os, files, e, ch) ==
    LET base == get_tesseract_command(os, files, e)
    IN  IF base.tag = "panic" THEN Call(base, 0, None, None)
        ELSE RunBuilt(dbg, os, Arg(base.val, "--version"), ch)

get_tesseract_langs(dbg, os, files, e, ch) ==
    LET base == get_tesseract_command(os, files, e)
    IN  IF base.tag = "panic" THEN Call(base, 0, None, None)
        ELSE LET o == RunBuilt(dbg, os, Arg(base.val, "--list-langs"), ch)
             IN  IF o.result.tag = "Ok"
                 THEN [o EXCEPT !.result = Ok(Skip(Lines(o.result.val), 1))]
                 ELSE o

image_to_string(dbg, os, files, e, img, a, ch) ==
    LET built == create_tesseract_command(os, files, e, img, a)
    IN  IF built.tag = "Ok"
        THEN RunBuilt(dbg, os, built.val, ch)
        ELSE Call(built, 0, None, None)

-----------------------------------------------------------------------------
(* Inputs *)

MaxPathDirs == 2     \* directories on PATH
MaxStdout == 3       \* bytes of child output in the runner's specification
MaxStderr == 2
MaxListing == 5      \* bytes of --list-langs output
MaxParams == 2       \* configuration parameters of one Args bundle

SeqsUpTo(S, n) == UNION {[1..k -> S] : k \in 0..n}

IoError == Err("io::Error")

Envs(nPath) ==
    [PATH : SeqsUpTo(Dirs, nPath),
     cwd  : {IoError} \cup {Ok(d) : d \in Dirs},
     exe  : {IoError, Ok(<<>>)} \cup {Ok(Join(d, "app")) : d \in Dirs},
     home : {None} \cup {Some(d) : d \in Dirs}]

\* Layouts with at most one entry.
SparseLayouts(os) ==
    {f \in [Candidates(os) -> Kinds] :
        Cardinality({p \in Candidates(os) : f[p] # "none"}) <= 1}

\* A machine with tesseract installed in /srv, which is on PATH.
InstalledEnv ==
    [PATH |-> <<<<"srv">>>>, cwd |-> Ok(<<"srv">>),
     exe |-> Ok(<<"srv", "app">>), home |-> None]
InstalledFs(os) ==
    [p \in Candidates(os) |->
        IF p = <<"srv", EXECUTABLE_NAME(os)>> THEN "file" ELSE "none"]
EmptyFs(os) == [p \in Candidates(os) |-> "none"]

Exited(n) == [code |-> Some(n), signal |-> 0]
Signaled(n) == [code |-> None, signal |-> n]

\* Exit codes and, on POSIX, a terminating signal.
Statuses(os) ==
    {Exited(0), Exited(1), Exited(12)}
        \cup (IF os = "windows" THEN {} ELSE {Signaled(9)})

SpawnFails ==
    [spawn |-> "fail", wait |-> "fail", stdout |-> <<>>, stderr |-> <<>>,
     status |-> Exited(0)]
WaitFails == [SpawnFails EXCEPT !.spawn = "ok"]

Children(os, outs, errs) ==
    {SpawnFails, WaitFails}
        \cup [spawn : {"ok"}, wait : {"ok"}, stdout : outs, stderr : errs,
              status : Statuses(os)]

ImagePaths == {"img.png", "-l"}
Images == {Ok(i) : i \in ImagePaths} \cup {Err("ImageNotFoundError")}

Numbers == {-1, 0, 7, 13, 300}
Optional(S) == {None} \cup {Some(x) : x \in S}
Parameters == {"a=1", "b=2"}

DefaultArgs ==
    [lang |-> "eng", dpi |-> Some(150), psm |-> Some(3), oem |-> Some(3),
     config |-> <<>>]

ArgBundles(nParams) ==
    [lang : {"eng", "fra+deu"}, dpi : Optional(Numbers), psm : Optional({3, 13}),
     oem : Optional({1}), config : SeqsUpTo(Parameters, nParams)]

\* Commands as the crate builds them, and with parts that are not UTF-8.
Commands ==
    [program : {<<"srv", "tesseract">>, <<"d\\xFF", "tesseract">>},
     args : {<<"--version">>, <<"img.png", "stdout", "-l", "eng">>,
             <<"d\\xFF", "stdout">>}]

-----------------------------------------------------------------------------
(* State machine: one call of one operation per behaviour *)

NotCalled ==
    /\ op = "none"
    /\ found = [path |-> None, step |-> 0]
    /\ result = NoResult
    /\ spawns = 0
    /\ printed = None

InitLocate ==
    /\ target_os \in Platforms
    /\ fs \in [Candidates(target_os) -> Kinds]
    /\ env \in Envs(MaxPathDirs)
    /\ debug_assertions = FALSE
    /\ image = Ok("img.png")
    /\ args = DefaultArgs
    /\ child = SpawnFails
    /\ command = None
    /\ NotCalled

InitRun ==
    /\ target_os \in Platforms
    /\ debug_assertions \in BOOLEAN
    /\ command \in {Some(c) : c \in Commands}
    /\ child \in Children(target_os, SeqsUpTo({"O", "\n", BadByte}, MaxStdout),
                          SeqsUpTo({"b", BadByte}, MaxStderr))
    /\ fs = InstalledFs(target_os)
    /\ env = InstalledEnv
    /\ image = Ok("img.png")
    /\ args = DefaultArgs
    /\ NotCalled

InitBuild ==
    /\ target_os \in Platforms
    /\ fs \in {InstalledFs(target_os), EmptyFs(target_os)}
    /\ env = InstalledEnv
    /\ image \in Images
    /\ args \in ArgBundles(MaxParams)
    /\ debug_assertions = FALSE
    /\ child = SpawnFails
    /\ command = None
    /\ NotCalled

InitLangs ==
    /\ target_os \in Platforms
    /\ fs \in {InstalledFs(target_os), EmptyFs(target_os)}
    /\ env = InstalledEnv
    /\ debug_assertions \in BOOLEAN
    /\ child \in Children(target_os, SeqsUpTo({"e", "f", "\n"}, MaxListing), {<<>>})
    /\ image = Ok("img.png")
    /\ args = DefaultArgs
    /\ command = None
    /\ NotCalled

Init ==
    /\ target_os \in Platforms
    /\ fs \in SparseLayouts(target_os)
    /\ env \in {e \in Envs(1) : /\ e.cwd \in {IoError, Ok(<<"srv">>)}
                                /\ e.exe \in {IoError, Ok(<<"d\\xFF", "app">>)}
                                /\ e.home \in {None, Some(<<"d\\xFF">>)}
                                /\ e.PATH \in {<<>>, <<<<"srv">>>>}}
    /\ debug_assertions \in BOOLEAN
    /\ image \in {Ok("img.png"), Err("ImageNotFoundError")}
    /\ args = DefaultArgs
    /\ child \in {SpawnFails, WaitFails}
           \cup [spawn : {"ok"}, wait : {"ok"}, stdout : {<<"f", "\n", "e", "\n">>},
                 stderr : {<<>>, <<"b">>}, status : {Exited(0), Exited(1)}]
    /\ command = None
    /\ NotCalled

Config == <<target_os, debug_assertions, fs, env, image, args, child>>

FindTesseractPath ==
    /\ op = "none"
    /\ op' = "find_tesseract_path"
    /\ found' = find_tesseract_path(target_os, fs, env)
    /\ UNCHANGED <<Config, command, result, spawns, printed>>

RunTesseractCommand ==
    /\ op = "none"
    /\ command.some
    /\ op' = "run_tesseract_command"
    /\ LET o == run_tesseract_command(debug_assertions, target_os, command.v, child)
       IN  /\ result' = o.result
           /\ spawns' = o.spawns
           /\ printed' = o.printed
    /\ UNCHANGED <<Config, command, found>>

CreateTesseractCommand ==
    /\ op = "none"
    /\ op' = "create_tesseract_command"
    /\ found' = find_tesseract_path(target_os, fs, env)
    /\ LET built == create_tesseract_command(target_os, fs, env, image, args)
       IN  /\ result' = built
           /\ command' = IF built.tag = "Ok" THEN Some(built.val) ELSE None
    /\ UNCHANGED <<Config, spawns, printed>>

Facade(name, call) ==
    /\ op = "none"
    /\ op' = name
    /\ found' = find_tesseract_path(target_os, fs, env)
    /\ result' = call.result
    /\ spawns' = call.spawns
    /\ printed' = call.printed
    /\ command' = call.command
    /\ UNCHANGED Config

GetTesseractVersion ==
    Facade("get_tesseract_version",
           get_tesseract_version(debug_assertions, target_os, fs, env, child))

GetTesseractLangs ==
    Facade("get_tesseract_langs",
           get_tesseract_langs(debug_assertions, target_os, fs, env, child))

ImageToString ==
    Facade("image_to_string",
           image_to_string(debug_assertions, target_os, fs, env, image, args, child))

Next == GetTesseractVersion \/ GetTesseractLangs \/ ImageToString

Spec == Init /\ [][Next]_vars
SpecLocate == InitLocate /\ [][FindTesseractPath]_vars
SpecRun == InitRun /\ [][RunTesseractCommand]_vars
SpecBuild == InitBuild /\ [][CreateTesseractCommand]_vars
SpecLangs == InitLangs /\ [][GetTesseractLangs]_vars

-----------------------------------------------------------------------------
(* Discovery: C1, C2, C3 (checked under SpecLocate) *)

Located == op = "find_tesseract_path"

\* The location each step looks at, when its environment query succeeds.
StepLocation(k) ==
    LET name == EXECUTABLE_NAME(target_os)
        exeDir == IF env.exe.tag = "Ok" /\ Len(env.exe.val) > 0
                  THEN Some(SubSeq(env.exe.val, 1, Len(env.exe.val) - 1))
                  ELSE None
    IN  CASE k = 2 -> IF env.cwd.tag = "Ok" THEN Some(env.cwd.val \o <<name>>) ELSE None
          [] k = 3 -> IF exeDir.some THEN Some(exeDir.v \o <<name>>) ELSE None
          [] k = 4 -> IF exeDir.some /\ target_os = "linux"
                      THEN Some(exeDir.v \o <<"lib", name>>)
                      ELSE IF exeDir.some /\ target_os = "macos"
                      THEN Some(exeDir.v \o <<"../Resources", name>>)
                      ELSE None
          [] k = 5 -> IF env.home.some
                      THEN Some(env.home.v \o <<".local/bin", name>>) ELSE None

IsExecutable(path) == path \in DOMAIN fs /\ fs[path] = "file"

\* Indices of the PATH directories that hold the executable.
OnPath ==
    {i \in 1..Len(env.PATH) :
        IsExecutable(env.PATH[i] \o <<EXECUTABLE_NAME(target_os)>>)}

\* The executable (a regular file of that name) is at step k's location.
ExecutableAt(k) ==
    IF k = 1 THEN OnPath # {}
    ELSE StepLocation(k).some /\ IsExecutable(StepLocation(k).v)

StepPath(k) ==
    IF k = 1
    THEN env.PATH[CHOOSE i \in OnPath : \A j \in OnPath : i <= j]
            \o <<EXECUTABLE_NAME(target_os)>>
    ELSE StepLocation(k).v

FirstAt(k) == ExecutableAt(k) /\ \A j \in 1..(k - 1) : ~ExecutableAt(j)

NoDirectories == \A p \in DOMAIN fs : fs[p] # "dir"

\* C1: when the executable exists at step k's location and at no earlier
\* step's location, find_tesseract_path returns exactly step k's path,
\* whatever exists at later steps.
C1_FirstMatchWins ==
    Located => \A k \in 1..5 : FirstAt(k) => found.path = Some(StepPath(k))

\* C1 restricted to layouts without a directory named like the executable.
C1_FirstMatchWinsAmongFiles == NoDirectories => C1_FirstMatchWins

\* C2: when the executable exists at none of the five locations,
\* find_tesseract_path returns None, whichever environment queries fail.
C2_NoneWhenAbsent ==
    (Located /\ \A k \in 1..5 : ~ExecutableAt(k)) => found.path = None

\* C2 restricted to layouts without a directory named like the executable.
C2_NoneWhenAbsentAmongFiles == NoDirectories => C2_NoneWhenAbsent

\* C3: a path returned by steps 2 to 5 is a regular file; a directory at a
\* candidate location is never returned.
C3_ReturnedIsRegularFile ==
    (Located /\ found.step \in 2..5) => IsExecutable(found.path.v)

-----------------------------------------------------------------------------
(* Facade: C4, C8 (checked under Spec) *)

FacadeOps == {"get_tesseract_version", "get_tesseract_langs", "image_to_string"}

\* C4: when the executable is found nowhere, each facade operation returns
\* Err(TesseractNotFoundError) and spawns no process.
C4_NotFoundIsTypedError ==
    (op \in FacadeOps /\ found.path = None)
        => result = Err(TesseractNotFoundError) /\ spawns = 0

\* C8: whenever the image reference cannot be resolved, image_to_string
\* returns the resolution error, found executable or not, and spawns no
\* process.
C8_ResolutionErrorReturned ==
    (op = "image_to_string" /\ image.tag = "Err")
        => result = Err(image.err) /\ spawns = 0

\* C8 restricted to calls in which the executable is found.
C8_ResolutionErrorWhenFound ==
    (op = "image_to_string" /\ image.tag = "Err" /\ found.path.some)
        => result = Err(image.err) /\ spawns = 0

-----------------------------------------------------------------------------
(* Runner: C5, C9, C10 (checked under SpecRun) *)

Ran == op = "run_tesseract_command"

Decodable(bytes) == BadByte \notin {bytes[i] : i \in 1..Len(bytes)}

\* A child was spawned, has exited, and its output is text.
Collected ==
    /\ Ran /\ spawns = 1
    /\ child.spawn = "ok" /\ child.wait = "ok"
    /\ Decodable(child.stdout) /\ Decodable(child.stderr)

\* C5: for a spawned, exited child with decodable output the result is
\* Ok(stdout) exactly when the exit code is 0, and otherwise
\* CommandExitStatusError with the stringified status and the stderr.
C5_ClassifiedByExitCode ==
    Collected =>
        /\ (result.tag = "Ok") = (child.status.code = Some(0))
        /\ result.tag = "Ok" => result.val = child.stdout
        /\ result.tag # "Ok" =>
              result = Err(CommandExitStatusError(
                              StatusToString(target_os, child.status), child.stderr))

C5_Witness_ExitOne ==
    /\ Collected /\ target_os = "linux"
    /\ child.status = Exited(1) /\ child.stdout = <<"O">> /\ child.stderr = <<"b", "b">>
    /\ result = Err(CommandExitStatusError("exit status: 1", <<"b", "b">>))

\* C9: when spawning fails, the call ends with Err(TesseractNotFoundError)
\* after that one spawn attempt; it never yields Ok or CommandExitStatusError.
C9_SpawnFailureIsNotFound ==
    (Ran /\ child.spawn = "fail") =>
        /\ spawns <= 1
        /\ spawns = 1 => result = Err(TesseractNotFoundError)
        /\ result.tag # "Ok"
        /\ ~(result.tag = "Err" /\ result.err.kind = "CommandExitStatusError")

C9_Witness_SpawnFailed ==
    /\ Ran /\ child.spawn = "fail" /\ spawns = 1
    /\ result = Err(TesseractNotFoundError)

\* C10: the call returns what it returns with the diagnostic disabled.
C10_DiagnosticChangesNothing ==
    Ran => result = run_tesseract_command(FALSE, target_os, command.v, child).result

\* C10 restricted to programs whose path is valid UTF-8.
C10_DiagnosticChangesNothingForTextPaths ==
    (Ran /\ PathToStr(command.v.program).some)
        => result = run_tesseract_command(FALSE, target_os, command.v, child).result

-----------------------------------------------------------------------------
(* Builder: C6 (checked under SpecBuild) *)

\* The command was built: the executable was found and the image resolved.
Built == op = "create_tesseract_command" /\ found.path.some /\ image.tag = "Ok"

\* Decimal notation of the option values in use.
Shown(n) ==
    CASE n = -1 -> "-1" [] n = 0 -> "0" [] n = 1 -> "1" [] n = 3 -> "3"
      [] n = 7 -> "7" [] n = 13 -> "13" [] n = 150 -> "150" [] n = 300 -> "300"

Present(opt) == IF opt.some THEN 1 ELSE 0

\* C6: the arguments are image path, "stdout", "-l", lang, then "--dpi" n,
\* "--psm" n, "--oem" n for the options present, in that order, then "-c" p
\* for each configuration parameter in the order supplied, and nothing else.
C6_ArgumentVector ==
    Built =>
        /\ result.tag = "Ok"
        /\ result.val.program = found.path.v
        /\ LET v == result.val.args
               atDpi == 4
               atPsm == atDpi + 2 * Present(args.dpi)
               atOem == atPsm + 2 * Present(args.psm)
               atConfig == atOem + 2 * Present(args.oem)
           IN  /\ Len(v) = atConfig + 2 * Len(args.config)
               /\ v[1] = image.val /\ v[2] = "stdout"
               /\ v[3] = "-l" /\ v[4] = args.lang
               /\ args.dpi.some =>
                     v[atDpi + 1] = "--dpi" /\ v[atDpi + 2] = Shown(args.dpi.v)
               /\ args.psm.some =>
                     v[atPsm + 1] = "--psm" /\ v[atPsm + 2] = Shown(args.psm.v)
               /\ args.oem.some =>
                     v[atOem + 1] = "--oem" /\ v[atOem + 2] = Shown(args.oem.v)
               /\ \A i \in 1..Len(args.config) :
                     /\ v[atConfig + 2 * i - 1] = "-c"
                     /\ v[atConfig + 2 * i] = args.config[i]

C6_Witness_DpiAndParameters ==
    /\ Built
    /\ args.dpi = Some(300) /\ args.psm = None /\ args.oem = Some(1)
    /\ args.config = <<"b=2", "a=1">>
    /\ result.val.args = <<"img.png", "stdout", "-l", "eng", "--dpi", "300",
                           "--oem", "1", "-c", "b=2", "-c", "a=1">>

-----------------------------------------------------------------------------
(* Language list: C7 (checked under SpecLangs) *)

Listed == op = "get_tesseract_langs" /\ result.tag = "Ok"

RECURSIVE Ascending(_)
Ascending(S) ==
    IF S = {} THEN <<>>
    ELSE LET m == CHOOSE x \in S : \A y \in S : x <= y
         IN  <<m>> \o Ascending(S \ {m})

\* The lines of a text by position: a line starts at 1 and after every line
\* feed, provided text is left there, and runs up to the next line feed.
LinesByPosition(text) ==
    LET feeds == {i \in 1..Len(text) : text[i] = "\n"}
        starts == Ascending({s \in {1} \cup {i + 1 : i \in feeds} : s <= Len(text)})
        stop(s) == CHOOSE e \in feeds \cup {Len(text) + 1} :
                      e >= s /\ \A i \in s..(e - 1) : i \notin feeds
    IN  [k \in 1..Len(starts) |-> SubSeq(text, starts[k], stop(starts[k]) - 1)]

NonEmpty(line) == line # <<>>

AfterHeader(text) ==
    LET all == LinesByPosition(text)
    IN  [k \in 1..(IF Len(all) = 0 THEN 0 ELSE Len(all) - 1) |-> all[k + 1]]

\* C7: the result's language codes are the non-empty lines of the output
\* after its first line, in output order, duplicates kept.
C7_CodesAreLinesAfterHeader ==
    Listed =>
        SelectSeq(result.val, NonEmpty) = SelectSeq(AfterHeader(child.stdout), NonEmpty)

\* Blank lines after the header are kept as empty entries.
C7_AllLinesAfterHeader == Listed => result.val = AfterHeader(child.stdout)

C7_Witness_HeaderDropped ==
    /\ Listed
    /\ child.stdout = <<"f", "\n", "e", "\n", "e">>
    /\ result.val = << <<"e">>, <<"e">> >>

=============================================================================
